---- MODULE Spec2Model ----
(***************************************************************************)
(* Verification model of sparse-ho's forward-differentiation core:         *)
(*   sparse_ho/utils.py    ST, init_dbeta0_new, iou, iou_beta, Monitor     *)
(*   sparse_ho/forward.py  Forward.get_beta_jac_v, get_beta_jac_iterdiff   *)
(* Python indices are 0-based; sequences here are 1-based, so the element  *)
(* the code writes a[k] is a[k + 1] below.  numpy floats are modelled by   *)
(* integers wherever the code only copies or compares them; the one true   *)
(* division (iou) is modelled by TrueDivide.                               *)
(***************************************************************************)
EXTENDS Integers, Sequences, FiniteSets, TLC

VARIABLES
    pc,          \* position of the running call
    \* ---- utils.init_dbeta0_new
    mask_old, mask, dbeta0, J1, J2,
    \* ---- utils.ST
    x, alpha, st_out,
    \* ---- utils.iou / utils.iou_beta
    supp1, supp2, beta1, beta2, iou_out,
    \* ---- utils.Monitor
    t0, now, objs, objs_test, times, log_alphas, grads, rmse, calls,
    \* ---- forward.Forward.get_beta_jac_v
    caller,           \* "direct" or "forward": who calls get_beta_jac_iterdiff
    caller_max_iter,  \* the max_iter the caller asked for
    fwd_ret,          \* what get_beta_jac_v returned
    \* ---- forward.get_beta_jac_iterdiff: parameters
    n_features, log_alpha, has_estimator, max_iter, tol, compute_jac,
    return_all, save_iterates,
    \* ---- forward.get_beta_jac_iterdiff: locals
    alphas, beta, dbeta, pobj0,
    pobj,        \* the last two entries of the list pobj (all the code reads)
    i,           \* the loop index range(max_iter) yields next
    broke,       \* the loop was left by break
    list_beta,   \* number of iterates stored in list_beta
    list_jac,    \* number of iterates stored in list_jac
    sweeps,      \* calls made to model._update_beta_jac_bcd[_sparse]
    ret          \* what get_beta_jac_iterdiff returned

remapVars == <<mask_old, mask, dbeta0, J1, J2>>
stVars    == <<x, alpha, st_out>>
iouVars   == <<supp1, supp2, beta1, beta2, iou_out>>
monVars   == <<t0, now, objs, objs_test, times, log_alphas, grads, rmse, calls>>
fwdVars   == <<caller, caller_max_iter, fwd_ret>>
paramVars == <<n_features, log_alpha, has_estimator, max_iter, tol,
               compute_jac, return_all, save_iterates>>
localVars == <<alphas, beta, dbeta, pobj0, pobj, i, broke, list_beta,
               list_jac, sweeps, ret>>
solverVars == <<fwdVars, paramVars, localVars>>
vars      == <<pc, remapVars, stVars, iouVars, monVars, solverVars>>

----------------------------------------------------------------------------
(* Bounds of the model.                                                    *)

\* largest number of features (length of a mask / support / beta)
MaxFeat == 3
\* Jacobian entries range over -1 .. MaxJac
MaxJac == 2
\* x and alpha of ST range over -MaxAbs .. MaxAbs
MaxAbs == 4
\* Monitor is called at most MaxCalls times
MaxCalls == 2
\* get_beta_jac_iterdiff is called directly with max_iter in 0 .. MaxIter
MaxIter == 4
\* number of features of the design matrix X given to the solver
NFeat == 2

\* entries of a warm-start Jacobian handed to init_dbeta0_new
JacVals == -1..MaxJac
\* coefficient values and Jacobian entries a sweep can leave behind
CoefVals == {0, 1}
SweepJacVals == {0, 1}
\* primal objective values model._get_pobj / model._get_pobj0 can return
PobjVals == {0, 1, 2}
PobjInitVals == {-2, 1}
\* tolerances tol
TolVals == {0, 1}
\* objective values given to Monitor
ObjVals == {7, 8}
\* iteration budgets asked of Forward.get_beta_jac_v
FwdIters == {1, 3, 200}

----------------------------------------------------------------------------
(* numpy helpers.                                                          *)

\* Python's None inside an optional value; Some(v) is a present value.
None == <<>>
Some(v) == <<v>>

\* all arrays of length n over the set S
Arrays(n, S) == [1..n -> S]

\* m.sum() of a boolean array
BoolSum(m) == Cardinality({k \in 1..Len(m) : m[k]})

\* np.zeros(n)
Zeros(n) == [k \in 1..n |-> 0]

\* np.logical_and(a, b), np.logical_or(a, b)
logical_and(a, b) == [k \in 1..Len(a) |-> a[k] /\ b[k]]
logical_or(a, b)  == [k \in 1..Len(a) |-> a[k] \/ b[k]]

\* np.sign, np.abs, np.maximum on scalars
Sign(v) == IF v > 0 THEN 1 ELSE IF v < 0 THEN -1 ELSE 0
Abs(v) == IF v < 0 THEN -v ELSE v
Maximum(a, b) == IF a >= b THEN a ELSE b

----------------------------------------------------------------------------
(* utils.ST                                                                *)

\* ST without the clamp at zero
ST_nomax(v, a) == Sign(v) * (Abs(v) - a)

\* return np.sign(x) * np.maximum(np.abs(x) - alpha, 0.)
ST(v, a) == Sign(v) * Maximum(Abs(v) - a, 0)

----------------------------------------------------------------------------
(* utils.init_dbeta0_new                                                   *)

\* The for loop of init_dbeta0_new from iteration j (1-based) on, with the
\* loop's locals count, count_old and dbeta0_new as they stand before it.
RECURSIVE RemapLoop(_, _, _, _, _, _, _)
RemapLoop(j, count, count_old, dbeta0_new, d0, m, m_old) ==
    IF j > Len(m) THEN dbeta0_new
    ELSE LET mask_both == logical_and(m_old, m)
             written == IF mask_both[j]
                        THEN [dbeta0_new EXCEPT ![count + 1] = d0[count_old + 1]]
                        ELSE dbeta0_new
         IN RemapLoop(j + 1,
                      IF m[j] THEN count + 1 ELSE count,
                      IF m_old[j] THEN count_old + 1 ELSE count_old,
                      written, d0, m, m_old)

\* The same loop with count_old advanced before the copy instead of after
\* it; a read past the end of dbeta0 yields 0.
RECURSIVE RemapLoopShift(_, _, _, _, _, _, _)
RemapLoopShift(j, count, count_old, dbeta0_new, d0, m, m_old) ==
    IF j > Len(m) THEN dbeta0_new
    ELSE LET mask_both == logical_and(m_old, m)
             c_old == IF m_old[j] THEN count_old + 1 ELSE count_old
             read == IF c_old + 1 <= Len(d0) THEN d0[c_old + 1] ELSE 0
             written == IF mask_both[j]
                        THEN [dbeta0_new EXCEPT ![count + 1] = read]
                        ELSE dbeta0_new
         IN RemapLoopShift(j + 1, IF m[j] THEN count + 1 ELSE count, c_old,
                           written, d0, m, m_old)

init_dbeta0_new_shift(d0, m, m_old) ==
    RemapLoopShift(1, 0, 0, Zeros(BoolSum(m)), d0, m, m_old)

init_dbeta0_new(d0, m, m_old) ==
    RemapLoop(1, 0, 0, Zeros(BoolSum(m)), d0, m, m_old)

----------------------------------------------------------------------------
(* utils.iou, utils.iou_beta                                               *)

RECURSIVE Gcd(_, _)
Gcd(a, b) == IF b = 0 THEN a ELSE Gcd(b, a % b)

\* numpy's true division of two non-negative integer scalars: the quotient
\* as a fraction in lowest terms, and "nan" for 0 / 0, "inf" for a / 0
\* (numpy warns and does not raise).
TrueDivide(a, b) ==
    IF b = 0 THEN (IF a = 0 THEN [kind |-> "nan", num |-> 0, den |-> 0]
                             ELSE [kind |-> "inf", num |-> 0, den |-> 0])
    ELSE [kind |-> "float", num |-> a \div Gcd(a, b), den |-> b \div Gcd(a, b)]

\* the float 0.0 and 1.0
Float0 == [kind |-> "float", num |-> 0, den |-> 1]
Float1 == [kind |-> "float", num |-> 1, den |-> 1]

\* iou with the complement of the intersection in the numerator
iou_swapped(s1, s2) ==
    TrueDivide(BoolSum(logical_or(s1, s2)) - BoolSum(logical_and(s1, s2)),
               BoolSum(logical_or(s1, s2)))

iou(s1, s2) ==
    TrueDivide(BoolSum(logical_and(s1, s2)), BoolSum(logical_or(s1, s2)))

\* beta != 0
NonZero(b) == [k \in 1..Len(b) |-> b[k] # 0]

iou_beta(b1, b2) ==
    LET s1 == NonZero(b1)
        s2 == NonZero(b2)
    IN TrueDivide(BoolSum(logical_and(s1, s2)), BoolSum(logical_or(s1, s2)))

----------------------------------------------------------------------------
(* utils.Monitor                                                           *)

\* log_alpha.copy() succeeds on an array; a float or None has no copy()
\* and the except branch stores the argument itself.
HasCopy(la) == la.kind = "array"
Copy(la) == la

\* Monitor.__init__: t0 = time.time() and six empty lists
Monitor_init ==
    /\ t0 = now
    /\ objs = <<>> /\ objs_test = <<>> /\ times = <<>>
    /\ log_alphas = <<>> /\ grads = <<>> /\ rmse = <<>>

\* __call__ writing the new record in front of the objs list
Monitor_call_prepend(obj_, obj_test_, log_alpha_, grad_, rmse_) ==
    /\ objs' = <<obj_>> \o objs
    /\ objs_test' = Append(objs_test, obj_test_)
    /\ log_alphas' = Append(log_alphas, log_alpha_)
    /\ times' = Append(times, now' - t0)
    /\ grads' = Append(grads, grad_)
    /\ rmse' = Append(rmse, rmse_)

\* Monitor.__call__(obj, obj_test, log_alpha, grad, rmse); now' is the
\* reading time.time() gives during the call.
Monitor_call(obj_, obj_test_, log_alpha_, grad_, rmse_) ==
    /\ objs' = Append(objs, obj_)
    /\ objs_test' = Append(objs_test, obj_test_)
    /\ log_alphas' = IF HasCopy(log_alpha_)
                      THEN Append(log_alphas, Copy(log_alpha_))
                      ELSE Append(log_alphas, log_alpha_)
    /\ times' = Append(times, now' - t0)
    /\ grads' = Append(grads, grad_)
    /\ rmse' = Append(rmse, rmse_)

----------------------------------------------------------------------------
(* The model adapter (sparse_ho.models), as the solver uses it.            *)

\* rank of index j among the true entries of the boolean array m
Rank(m, j) == Cardinality({k \in 1..j : m[k]})

\* a[m] for a boolean array m (numpy boolean indexing)
RECURSIVE BoolIndexFrom(_, _, _)
BoolIndexFrom(a, m, j) ==
    IF j > Len(a) THEN <<>>
    ELSE (IF m[j] THEN <<a[j]>> ELSE <<>>) \o BoolIndexFrom(a, m, j + 1)
BoolIndex(a, m) == BoolIndexFrom(a, m, 1)

\* z = np.zeros(n); z[m] = vals
Scatter(m, vals, n) == [k \in 1..n |-> IF m[k] THEN vals[Rank(m, k)] ELSE 0]

\* np.exp on the log values the model draws
NpExp(v) == CASE v = 0 -> 1

\* the log_alpha arguments: a float, or an array of length 1 .. n + 1
LogAlphaInputs(n) ==
    {[kind |-> "scalar", val |-> <<0>>]}
        \cup {[kind |-> "array", val |-> Zeros(len)] : len \in 1..(n + 1)}

\* the warm starts (mask0, dense0, jac0): None, or a prior support with its
\* nonzero coefficients and, optionally, its Jacobian
WarmStarts(n) ==
    {None} \cup UNION {
        {Some([mask0 |-> m, dense0 |-> d, jac0 |-> j]) :
            d \in Arrays(BoolSum(m), CoefVals \ {0}),
            j \in {None} \cup {Some(jj) : jj \in Arrays(BoolSum(m), {1})}} :
        m \in Arrays(n, BOOLEAN)}

\* model._init_beta_r: beta is zero without a warm start, else dense0 on mask0
init_beta_r(ws, n) ==
    IF ws = None THEN Zeros(n) ELSE Scatter(ws[1].mask0, ws[1].dense0, n)

\* model._init_dbeta_dr: dbeta is zero unless a Jacobian is warm-started
init_dbeta_dr(ws, n, cj) ==
    IF ws = None \/ ~cj THEN Zeros(n)
    ELSE IF ws[1].jac0 = None THEN Zeros(n)
    ELSE Scatter(ws[1].mask0, ws[1].jac0[1], n)

\* model._get_jac: the Jacobian restricted to the active set
get_jac(db, m) == BoolIndex(db, m)

\* model._use_estimator: support and coefficients of the wrapped solver's
\* solution b, with a null Jacobian
use_estimator(b) == <<"std", NonZero(b), BoolIndex(b, NonZero(b)), None>>

\* model.get_jac_v: contraction of the active Jacobian with v on the support
RECURSIVE Dot(_, _)
Dot(a, b) == IF a = <<>> THEN 0 ELSE Head(a) * Head(b) + Dot(Tail(a), Tail(b))
get_jac_v(m, dense, jac, v) == Dot(jac, BoolIndex(v, m))

\* model.get_full_jac_v: a scalar hyperparameter has nothing to zero-fill
get_full_jac_v(m, jac_v, n) == jac_v

----------------------------------------------------------------------------
(* forward.get_beta_jac_iterdiff                                           *)

\* the budget Forward.get_beta_jac_v passes on
HardMaxIter == 100

\* max_iter=100 in the call of get_beta_jac_iterdiff
PassedMaxIter(asked) == HardMaxIter

\* alphas: alpha.copy() when alpha.shape[0] exists, else
\* np.ones(n_features) * alpha
Alphas(la, n) ==
    IF la.kind = "array"
    THEN [k \in 1..Len(la.val) |-> NpExp(la.val[k])]
    ELSE [k \in 1..n |-> 1 * NpExp(la.val[1])]

\* for i in range(max_iter): there is a next i
RangeHasNextShort(i_, max_iter_) == i_ < max_iter_ - 1

RangeHasNext(i_, max_iter_) == i_ < max_iter_

\* pobj[-2:] after pobj.append(p)
LastTwo(q) == IF Len(q) <= 2 THEN q ELSE SubSeq(q, Len(q) - 1, Len(q))

\* the test with i > 0 in place of i > 1
StopCriterionEarly(i_, pobj_, pobj0_, tol_) ==
    /\ i_ > 0
    /\ pobj_[Len(pobj_) - 1] - pobj_[Len(pobj_)] <= Abs(pobj0_ * tol_)

\* (i > 1) and (pobj[-2] - pobj[-1] <= np.abs(pobj0 * tol))
StopCriterion(i_, pobj_, pobj0_, tol_) ==
    /\ i_ > 1
    /\ pobj_[Len(pobj_) - 1] - pobj_[Len(pobj_)] <= Abs(pobj0_ * tol_)

\* the returned tuple, tagged with its shape
Result(beta_, dbeta_, cj, ra, si, lb, lj) ==
    LET mask_ == NonZero(beta_)
        dense == BoolIndex(beta_, mask_)
        jac == get_jac(dbeta_, mask_)
    IN IF si THEN <<"iterates", lb, lj>>
       ELSE IF ra THEN <<"all", mask_, dense, lb>>
       ELSE IF cj THEN <<"std", mask_, dense, Some(jac)>>
       ELSE <<"std", mask_, dense, None>>

\* lines 70-107: up to the loop; with an estimator the adapter's solver
\* answers at once
Enter ==
    /\ pc = "enter"
    /\ IF has_estimator
       THEN /\ \E b \in Arrays(n_features, CoefVals) : ret' = use_estimator(b)
            /\ pc' = "returned"
            /\ UNCHANGED <<alphas, beta, dbeta, pobj0, pobj, i, broke,
                           list_beta, list_jac, sweeps>>
       ELSE /\ alphas' = Alphas(log_alpha, n_features)
            /\ \E ws \in WarmStarts(n_features) :
                 /\ beta' = init_beta_r(ws, n_features)
                 /\ dbeta' = init_dbeta_dr(ws, n_features, compute_jac)
            /\ pobj0' \in PobjInitVals
            /\ pobj' = <<>>
            /\ list_beta' = 0
            /\ list_jac' = 0
            /\ i' = 0
            /\ pc' = "loop"
            /\ UNCHANGED <<broke, sweeps, ret>>
    /\ UNCHANGED <<remapVars, stVars, iouVars, monVars, fwdVars, paramVars>>

\* lines 109-131: one iteration of the loop.  The sweep and the objective
\* are the adapter's: any coefficients, any Jacobian (left alone without
\* compute_jac) and any objective value of PobjVals.  A loop that is not
\* stopped needs a decrease above |pobj0 * tol| >= 0 at every sweep from
\* the 3rd on, so it lasts at most 2 + Cardinality(PobjVals) - 1 sweeps.
Sweep ==
    /\ pc = "loop"
    /\ RangeHasNext(i, max_iter)
    /\ beta' \in Arrays(n_features, CoefVals)
    /\ dbeta' \in (IF compute_jac THEN Arrays(n_features, SweepJacVals)
                                  ELSE {dbeta})
    /\ sweeps' = sweeps + 1
    /\ \E p \in PobjVals : pobj' = LastTwo(Append(pobj, p))
    /\ IF StopCriterion(i, pobj', pobj0, tol)
       THEN /\ pc' = "exit"
            /\ broke' = TRUE
            /\ UNCHANGED <<i, list_beta, list_jac>>
       ELSE /\ pc' = "loop"
            /\ i' = i + 1
            /\ list_beta' = list_beta + (IF return_all THEN 1 ELSE 0)
                                      + (IF save_iterates THEN 1 ELSE 0)
            /\ list_jac' = list_jac + (IF save_iterates THEN 1 ELSE 0)
            /\ UNCHANGED broke
    /\ UNCHANGED <<alphas, pobj0, ret>>
    /\ UNCHANGED <<remapVars, stVars, iouVars, monVars, fwdVars, paramVars>>

\* lines 132-149: after the loop, by break or by exhaustion
Finish ==
    /\ IF pc = "exit" THEN TRUE
       ELSE pc = "loop" /\ ~RangeHasNext(i, max_iter)
    /\ ret' = Result(beta, dbeta, compute_jac, return_all, save_iterates,
                     list_beta, list_jac)
    /\ pc' = "returned"
    /\ UNCHANGED <<alphas, beta, dbeta, pobj0, pobj, i, broke, list_beta,
                   list_jac, sweeps>>
    /\ UNCHANGED <<remapVars, stVars, iouVars, monVars, fwdVars, paramVars>>

----------------------------------------------------------------------------
(* forward.Forward.get_beta_jac_v                                          *)

\* lines 20-24: the call of get_beta_jac_iterdiff
ForwardCall ==
    /\ pc = "fwd_call"
    /\ max_iter' = PassedMaxIter(caller_max_iter)
    /\ pc' = "enter"
    /\ UNCHANGED <<n_features, log_alpha, has_estimator, tol, compute_jac,
                   return_all, save_iterates>>
    /\ UNCHANGED <<remapVars, stVars, iouVars, monVars, fwdVars, localVars>>

\* lines 26-32: jac_v from the returned Jacobian
ForwardReturn ==
    /\ pc = "returned"
    /\ caller = "forward"
    /\ \E v \in Arrays(n_features, {0, 1}), full_jac_v \in BOOLEAN :
         LET mask_ == ret[2]
             dense == ret[3]
             jac == ret[4]
             jac_v == IF jac = None THEN None
                      ELSE IF full_jac_v
                      THEN Some(get_full_jac_v(mask_,
                             get_jac_v(mask_, dense, jac[1], v), n_features))
                      ELSE Some(get_jac_v(mask_, dense, jac[1], v))
         IN fwd_ret' = <<mask_, dense, jac_v, jac>>
    /\ pc' = "fwd_done"
    /\ UNCHANGED <<caller, caller_max_iter>>
    /\ UNCHANGED <<remapVars, stVars, iouVars, monVars, paramVars, localVars>>

----------------------------------------------------------------------------
(* Calls of the pure utilities.                                            *)

\* J1 = init_dbeta0_new(dbeta0, mask, mask_old)
Realign ==
    /\ pc = "remap"
    /\ J1' = init_dbeta0_new(dbeta0, mask, mask_old)
    /\ pc' = "remap_once"
    /\ UNCHANGED <<mask_old, mask, dbeta0, J2>>
    /\ UNCHANGED <<stVars, iouVars, monVars, solverVars>>

\* J2 = init_dbeta0_new(J1, mask, mask)
RealignAgain ==
    /\ pc = "remap_once"
    /\ J2' = init_dbeta0_new(J1, mask, mask)
    /\ pc' = "remap_twice"
    /\ UNCHANGED <<mask_old, mask, dbeta0, J1>>
    /\ UNCHANGED <<stVars, iouVars, monVars, solverVars>>

\* st_out = ST(x, alpha)
ApplyST ==
    /\ pc = "st"
    /\ st_out' = ST(x, alpha)
    /\ pc' = "st_done"
    /\ UNCHANGED <<x, alpha>>
    /\ UNCHANGED <<remapVars, iouVars, monVars, solverVars>>

\* iou_out = iou(supp1, supp2)
CallIou ==
    /\ pc = "iou"
    /\ iou_out' = iou(supp1, supp2)
    /\ pc' = "iou_done"
    /\ UNCHANGED <<supp1, supp2, beta1, beta2>>
    /\ UNCHANGED <<remapVars, stVars, monVars, solverVars>>

\* iou_out = iou_beta(beta1, beta2)
CallIouBeta ==
    /\ pc = "iou_beta"
    /\ iou_out' = iou_beta(beta1, beta2)
    /\ pc' = "iou_beta_done"
    /\ UNCHANGED <<supp1, supp2, beta1, beta2>>
    /\ UNCHANGED <<remapVars, stVars, monVars, solverVars>>

\* the optional arguments of Monitor.__call__: absent (None) or a value
OptVals == {None, Some(1)}
MonitorLogAlphas ==
    {[kind |-> "None", val |-> <<>>], [kind |-> "scalar", val |-> <<0>>],
     [kind |-> "array", val |-> <<0, 0>>]}

\* monitor(obj, obj_test, log_alpha, grad, rmse), one clock tick after the
\* previous reading of time.time(); calls is the history of the arguments
MonitorCall ==
    /\ pc = "monitor"
    /\ Len(calls) < MaxCalls
    /\ now' = now + 1
    /\ \E o \in ObjVals, ot \in OptVals, la \in MonitorLogAlphas,
          g \in OptVals, r \in OptVals :
         /\ Monitor_call(o, ot, la, g, r)
         /\ calls' = Append(calls, [obj |-> o, obj_test |-> ot,
                                    log_alpha |-> la, grad |-> g, rmse |-> r])
    /\ UNCHANGED <<pc, t0>>
    /\ UNCHANGED <<remapVars, stVars, iouVars, solverVars>>

----------------------------------------------------------------------------
(* Initial states: each specification runs one component, the others idle. *)

Pending == [kind |-> "pending", num |-> 0, den |-> 0]

IdleRemap ==
    mask_old = <<>> /\ mask = <<>> /\ dbeta0 = <<>> /\ J1 = <<>> /\ J2 = <<>>
IdleST == x = 0 /\ alpha = 0 /\ st_out = 0
IdleIou ==
    /\ supp1 = <<>> /\ supp2 = <<>> /\ beta1 = <<>> /\ beta2 = <<>>
    /\ iou_out = Pending
IdleMonitor == now = 0 /\ Monitor_init /\ calls = <<>>
IdleLocals ==
    /\ alphas = <<>> /\ beta = <<>> /\ dbeta = <<>> /\ pobj0 = 0
    /\ pobj = <<>> /\ i = 0 /\ broke = FALSE /\ list_beta = 0
    /\ list_jac = 0 /\ sweeps = 0 /\ ret = <<>>
IdleSolver ==
    /\ caller = "direct" /\ caller_max_iter = 0 /\ fwd_ret = <<>>
    /\ n_features = 0 /\ log_alpha = [kind |-> "scalar", val |-> <<0>>]
    /\ has_estimator = FALSE /\ max_iter = 0 /\ tol = 0
    /\ compute_jac = FALSE /\ return_all = FALSE /\ save_iterates = FALSE
    /\ IdleLocals

InitRemap ==
    /\ pc = "remap"
    /\ \E n \in 0..MaxFeat :
         /\ mask_old \in Arrays(n, BOOLEAN)
         /\ mask \in Arrays(n, BOOLEAN)
    /\ dbeta0 \in Arrays(BoolSum(mask_old), JacVals)
    /\ J1 = <<>> /\ J2 = <<>>
    /\ IdleST /\ IdleIou /\ IdleMonitor /\ IdleSolver

InitST ==
    /\ pc = "st"
    /\ x \in -MaxAbs..MaxAbs
    /\ alpha \in -MaxAbs..MaxAbs
    /\ st_out = 0
    /\ IdleRemap /\ IdleIou /\ IdleMonitor /\ IdleSolver

InitIou ==
    /\ pc \in {"iou", "iou_beta"}
    /\ \E n \in 1..MaxFeat :
         IF pc = "iou"
         THEN /\ supp1 \in Arrays(n, BOOLEAN) /\ supp2 \in Arrays(n, BOOLEAN)
              /\ beta1 = <<>> /\ beta2 = <<>>
         ELSE /\ beta1 \in Arrays(n, {-1, 0, 1})
              /\ beta2 \in Arrays(n, {-1, 0, 1})
              /\ supp1 = <<>> /\ supp2 = <<>>
    /\ iou_out = Pending
    /\ IdleRemap /\ IdleST /\ IdleMonitor /\ IdleSolver

InitMonitor ==
    /\ pc = "monitor"
    /\ now = 0
    /\ Monitor_init
    /\ calls = <<>>
    /\ IdleRemap /\ IdleST /\ IdleIou /\ IdleSolver

\* a direct call get_beta_jac_iterdiff(X, y, log_alpha, model, ...) with a
\* float log_alpha
InitSolver ==
    /\ pc = "enter"
    /\ caller = "direct"
    /\ max_iter \in 0..MaxIter
    /\ caller_max_iter = max_iter
    /\ fwd_ret = <<>>
    /\ n_features = NFeat
    /\ log_alpha = [kind |-> "scalar", val |-> <<0>>]
    /\ has_estimator \in BOOLEAN
    /\ tol \in TolVals
    /\ compute_jac \in BOOLEAN
    /\ return_all \in BOOLEAN
    /\ save_iterates \in BOOLEAN
    /\ IdleLocals
    /\ IdleRemap /\ IdleST /\ IdleIou /\ IdleMonitor

\* a direct call with default flags and a log_alpha of any shape
InitShape ==
    /\ pc = "enter"
    /\ caller = "direct"
    /\ max_iter \in 0..MaxIter
    /\ caller_max_iter = max_iter
    /\ fwd_ret = <<>>
    /\ n_features = NFeat
    /\ log_alpha \in LogAlphaInputs(NFeat)
    /\ has_estimator \in BOOLEAN
    /\ tol \in TolVals
    /\ compute_jac \in BOOLEAN
    /\ return_all = FALSE
    /\ save_iterates = FALSE
    /\ IdleLocals
    /\ IdleRemap /\ IdleST /\ IdleIou /\ IdleMonitor

\* a call Forward().get_beta_jac_v(X, y, log_alpha, model, v, max_iter=N, ...)
InitForward ==
    /\ pc = "fwd_call"
    /\ caller = "forward"
    /\ caller_max_iter \in FwdIters
    /\ max_iter = 0
    /\ fwd_ret = <<>>
    /\ n_features = NFeat
    /\ log_alpha = [kind |-> "scalar", val |-> <<0>>]
    /\ has_estimator \in BOOLEAN
    /\ tol \in TolVals
    /\ compute_jac \in BOOLEAN
    /\ return_all = FALSE
    /\ save_iterates = FALSE
    /\ IdleLocals
    /\ IdleRemap /\ IdleST /\ IdleIou /\ IdleMonitor

NextRemap == Realign \/ RealignAgain
NextST == ApplyST
NextIou == CallIou \/ CallIouBeta
NextMonitor == MonitorCall
NextSolver == Enter \/ Sweep \/ Finish
NextForward == ForwardCall \/ Enter \/ Sweep \/ Finish \/ ForwardReturn

SpecRemap == InitRemap /\ [][NextRemap]_vars
SpecST == InitST /\ [][NextST]_vars
SpecIou == InitIou /\ [][NextIou]_vars
SpecMonitor == InitMonitor /\ [][NextMonitor]_vars
SpecShape == InitShape /\ [][NextSolver]_vars
SpecForward == InitForward /\ [][NextForward]_vars

Init == InitSolver
Next == NextSolver
Spec == Init /\ [][Next]_vars

----------------------------------------------------------------------------
(* Properties.                                                             *)

\* d is a[m]: one entry per true index of m, in index order
IsRestriction(d, a, m) ==
    /\ Len(d) = BoolSum(m)
    /\ \A j \in 1..Len(m) : m[j] => d[Rank(m, j)] = a[j]

\* C1: init_dbeta0_new returns mask.sum() entries; the entry of an index j
\* of mask is dbeta0's entry of j when j is in mask_old and 0 when it is
\* not; entries of indices outside mask are dropped.
C1_RemapEntries ==
    pc \in {"remap_once", "remap_twice"} =>
        /\ Len(J1) = BoolSum(mask)
        /\ \A j \in 1..Len(mask) :
             mask[j] => J1[Rank(mask, j)] =
                 IF mask_old[j] THEN dbeta0[Rank(mask_old, j)] ELSE 0

\* a kept index with a nonzero derivative, a newly active index and a
\* dropped index with a nonzero derivative, after the call
C1_Witness ==
    /\ pc = "remap_once"
    /\ \E j \in 1..Len(mask) :
         mask[j] /\ mask_old[j] /\ dbeta0[Rank(mask_old, j)] # 0
           /\ J1[Rank(mask, j)] # 0
    /\ \E j \in 1..Len(mask) : mask[j] /\ ~mask_old[j]
    /\ \E j \in 1..Len(mask) :
         ~mask[j] /\ mask_old[j] /\ dbeta0[Rank(mask_old, j)] # 0

\* C2: realigning the realigned Jacobian J1 to the same new mask gives J1.
C2_Idempotent == pc = "remap_twice" => J2 = J1

\* a second realignment of a Jacobian with a kept nonzero entry and a
\* newly active entry, the masks differing
C2_Witness ==
    /\ pc = "remap_twice"
    /\ mask # mask_old
    /\ \E k \in 1..Len(J1) : J1[k] # 0
    /\ \E j \in 1..Len(mask) : mask[j] /\ ~mask_old[j]
    /\ Len(J2) >= 2

\* C3: a call get_beta_jac_v(..., max_iter=N) makes at most N sweeps.
C3_AtMostMaxIter == caller = "forward" => sweeps <= caller_max_iter

\* the ratio |s1 and s2| / |s1 or s2| of two supports
SupportRatio(s1, s2) ==
    TrueDivide(Cardinality({k \in 1..Len(s1) : s1[k] /\ s2[k]}),
               Cardinality({k \in 1..Len(s1) : s1[k] \/ s2[k]}))
EmptySupport(s) == \A k \in 1..Len(s) : ~s[k]

\* C4: iou and iou_beta return 0 when both supports are empty and the
\* ratio |intersection| / |union| otherwise.
C4_GuardedIou ==
    /\ pc = "iou_done" =>
         iou_out = IF EmptySupport(supp1) /\ EmptySupport(supp2)
                   THEN Float0 ELSE SupportRatio(supp1, supp2)
    /\ pc = "iou_beta_done" =>
         iou_out = IF EmptySupport(NonZero(beta1)) /\ EmptySupport(NonZero(beta2))
                   THEN Float0
                   ELSE SupportRatio(NonZero(beta1), NonZero(beta2))

\* log_alpha is an array whose length is not the number of features
ShapeMismatch == log_alpha.kind = "array" /\ Len(log_alpha.val) # n_features

\* C5: with a log_alpha array of the wrong length no sweep is executed.
C5_FailFast == ShapeMismatch => sweeps = 0

\* C6: after n calls objs holds the n objective arguments in call order,
\* every list holds one entry per call, and every call completed.
C6_AppendOnly ==
    /\ objs = [k \in 1..Len(calls) |-> calls[k].obj]
    /\ Len(objs_test) = Len(calls) /\ Len(log_alphas) = Len(calls)
    /\ Len(times) = Len(calls) /\ Len(grads) = Len(calls)
    /\ Len(rmse) = Len(calls)

\* two calls with different objectives, one without optional arguments
\* and one with all of them
C6_Witness ==
    /\ Len(calls) = 2
    /\ calls[1].obj # calls[2].obj
    /\ calls[1].obj_test = None /\ calls[1].log_alpha.kind = "None"
    /\ calls[1].grad = None /\ calls[1].rmse = None
    /\ calls[2].obj_test # None /\ calls[2].log_alpha.kind = "array"
    /\ calls[2].grad # None /\ calls[2].rmse # None
    /\ objs = <<calls[1].obj, calls[2].obj>>

\* C7: iou(s, s) is 1 for a nonempty s, and iou(s1, s2) is 0 for nonempty
\* s1, s2 with no common index.
C7_IouSelfDisjoint ==
    pc = "iou_done" =>
        /\ (supp1 = supp2 /\ ~EmptySupport(supp1)) => iou_out = Float1
        /\ (/\ ~EmptySupport(supp1) /\ ~EmptySupport(supp2)
            /\ \A k \in 1..Len(supp1) : ~(supp1[k] /\ supp2[k]))
             => iou_out = Float0

\* iou of a support of two indices with itself
C7_Witness ==
    /\ pc = "iou_done"
    /\ supp1 = supp2
    /\ BoolSum(supp1) = 2 /\ Len(supp1) = 3
    /\ iou_out = Float1

\* C8: ST(x, 0) = x, and ST(x, alpha) = 0 whenever |x| <= alpha.
C8_SoftThreshold ==
    pc = "st_done" =>
        /\ alpha = 0 => st_out = x
        /\ Abs(x) <= alpha => st_out = 0

\* a nonzero x strictly inside the threshold, mapped to 0
C8_Witness ==
    pc = "st_done" /\ x # 0 /\ Abs(x) < alpha /\ st_out = 0

\* the decrease pobj[-2] - pobj[-1] of a list of at least two objectives
Decrease(q) == q[Len(q) - 1] - q[Len(q)]

\* C9 as stated: a sweep ends the loop exactly when it is at least the 2nd
\* and the decrease is smaller than tol * |pobj0|; no sweep follows a stop.
C9_StopFromSecond ==
    [][/\ sweeps' = sweeps + 1 =>
            (broke' <=> /\ sweeps' >= 2
                        /\ Decrease(pobj') < tol * Abs(pobj0))
       /\ broke => sweeps' = sweeps]_vars

\* C9 amended: a sweep ends the loop exactly when it is at least the 3rd
\* and the decrease is at most |pobj0 * tol|; no sweep follows a stop.
C9_StopFromThird ==
    [][/\ sweeps' = sweeps + 1 =>
            (broke' <=> /\ sweeps' >= 3
                        /\ Decrease(pobj') <= Abs(pobj0 * tol))
       /\ broke => sweeps' = sweeps]_vars

\* the loop left by break at the 3rd sweep with budget remaining
C9_Witness ==
    /\ pc = "exit" /\ broke
    /\ sweeps = 3 /\ max_iter > 3
    /\ Decrease(pobj) = Abs(pobj0 * tol)

\* the tuple (mask, dense, jac) built from beta and dbeta as they stand
StdResult ==
    /\ Len(beta) = n_features
    /\ ret[1] = "std"
    /\ ret[2] = [k \in 1..n_features |-> beta[k] # 0]
    /\ IsRestriction(ret[3], beta, ret[2])
    /\ IF compute_jac
       THEN ret[4] # None /\ IsRestriction(ret[4][1], dbeta, ret[2])
       ELSE ret[4] = None

\* C10 as stated: a call whose loop was never stopped returns after
\* exactly max_iter sweeps the tuple (mask, dense, jac or None), built from
\* beta and dbeta (an estimator's solution stands for them where the
\* adapter wraps one).
C10_ExhaustedReturn ==
    (pc = "returned" /\ ~broke) =>
        /\ sweeps = max_iter
        /\ IF has_estimator THEN ret[1] = "std" ELSE StdResult

\* C10 amended: without an estimator, a call whose loop was never stopped
\* returns after exactly max_iter sweeps; with return_all and
\* save_iterates both False it returns (mask, dense, jac or None).
C10_ExhaustedReturnNoEstimator ==
    (pc = "returned" /\ ~has_estimator /\ ~broke) =>
        /\ sweeps = max_iter
        /\ (~return_all /\ ~save_iterates) => StdResult

\* a budget of at least 3 sweeps exhausted, the Jacobian computed, an
\* inactive coefficient whose derivative is not zero
C10_Witness ==
    /\ pc = "returned" /\ ~has_estimator /\ ~broke
    /\ max_iter >= 3 /\ sweeps = max_iter
    /\ ~return_all /\ ~save_iterates /\ compute_jac
    /\ StdResult
    /\ \E j \in 1..n_features : beta[j] = 0 /\ dbeta[j] # 0
    /\ \E j \in 1..n_features : beta[j] # 0

====
